---- MODULE Spec2Model ----
(***************************************************************************)
(* State-machine model of rustp2p:                                         *)
(*   - the length-prefixed TCP stream codec (src/src/config/mod.rs),       *)
(*   - the builder-style configuration records (src/src/config/mod.rs),    *)
(*   - the DNS queries (src/src/extend/dns_query.rs),                      *)
(*   - the receive loop of the example node (src/examples/node.rs).        *)
(* Each part has its own specification over the shared variables; the      *)
(* parts a specification does not exercise stay in their initial state.    *)
(***************************************************************************)
EXTENDS Integers, Sequences, FiniteSets, TLC

VARIABLES
    wire,      \* bytes written to the TCP stream and not yet read by the peer
    enc,       \* the encode call: position, argument, bytes written, result
    sent,      \* payloads accepted by encode, in order (history)
    rejects,   \* for each rejected encode call, the number of payloads accepted before it (history)
    dec,       \* LengthPrefixedDecoder {offset, buf} and the decode call
    recvd,     \* payloads returned by decode, in order (history)
    profile,   \* the traffic of this connection: short payloads, or a long one
    closed,    \* the peer has closed the connection: once the stream is drained, reads return 0
    cancels,   \* for each abandoned decode call, what the decoder held then (history)
    refused,   \* positions in sent of the frames a decode call failed on with OutOfMemory (history)
    dns,       \* the dns_query_txt / dns_query_all call: list, loop position, err, result
    q,         \* the query tasks (txt_dns, a_dns, aaaa_dns) of the current name server
    contacted, \* positions in the list of the servers a request was sent to (history)
    outcomes,  \* what each server tried so far yielded, in order (history)
    udp,       \* the UdpPipeConfig being built
    tcp,       \* the TcpPipeConfig being built
    cfg,       \* the PipeConfig being built
    calls,     \* the setters called so far, with their arguments (history)
    proc,      \* the node process: running, or ended by a failed accept
    lines,     \* the recv task of each accepted PipeLine
    log,       \* the relay sends and TUN writes attempted, in order (history)
    tun,       \* the tun_recv task: position, send_packet, the packet just read
    tunlog,    \* the send_to_packet calls of tun_recv, in order (history)
    core,      \* the rust_p2p_core PipeConfig the configuration was converted into
    conns      \* the decoder and encoder codec() made for each TCP connection

codecVars == <<wire, enc, sent, rejects, dec, recvd, profile, closed, cancels, refused>>

dnsVars == <<dns, q, contacted, outcomes>>

cfgVars == <<udp, tcp, cfg, calls>>

nodeVars == <<proc, lines, log>>

tunVars == <<tun, tunlog>>

coreVars == <<core, conns>>

vars == <<wire, enc, sent, rejects, dec, recvd, profile, closed, cancels, refused, dns, q, contacted, outcomes,
          udp, tcp, cfg, calls, proc, lines, log, tun, tunlog, core, conns>>

----------------------------------------------------------------------------
(* Bounds of the model *)

\* longest ordinary payload
MaxLen == 2
\* number of payloads one connection accepts
MaxFrames == 2
\* number of rejected encode calls
MaxRejects == 1
\* number of decode calls abandoned at a read
MaxCancels == 1
\* length of the long payload (its length prefix has a non-zero high byte)
BigLen == 257
\* reads and first writes of up to MaxChunk bytes are enumerated one by one,
\* beyond that only the largest possible one
MaxChunk == 3
\* longest list of name servers passed to a DNS query
MaxServers == 2
\* number of setter calls on the configuration builders
MaxCalls == 2
\* number of PipeLines the node accepts
MaxLines == 2
\* number of packets the PipeLines yield, all together
MaxPackets == 3
\* number of packets read from the TUN device
MaxTunReads == 3
\* number of TCP connections codec() is called for
MaxConns == 2

----------------------------------------------------------------------------
(* Values *)

\* u16::MAX
U16_MAX == 65535

\* length of the shortest payload that is too long
OversizeLen == U16_MAX + 1

\* content of memory exposed by set_len and never written
Uninit == -1
\* content of the caller's buffer before decode touches it
Untouched == -2

Min(a, b) == IF a < b THEN a ELSE b

Fill(n, v) == SubSeq([i \in 1..n |-> v], 1, n)

RECURSIVE SeqsUpTo(_, _)
SeqsUpTo(S, n) ==
    IF n = 0 THEN {<<>>}
    ELSE LET shorter == SeqsUpTo(S, n - 1)
         IN  shorter \cup {Append(s, x) : s \in {t \in shorter : Len(t) = n - 1}, x \in S}

\* the payload of n bytes: its bytes count down to 0, so that they differ from each
\* other and its tail reads like the length prefix of a shorter payload
Payload(n) == SubSeq([i \in 1..n |-> (n - i) % 256], 1, n)

BigPayload == Payload(BigLen)

OversizePayload == Payload(OversizeLen)

SmallPayloads == {Payload(n) : n \in 0..MaxLen}

ShortPayloads == SmallPayloads \cup {OversizePayload}

LongPayloads == {Payload(1), BigPayload}

PlainPayloads == {Payload(n) : n \in 1..MaxLen}

\* the payloads the caller may pass to encode on a connection of profile p
Payloads(p) ==
    IF p = "short" THEN ShortPayloads ELSE IF p = "long" THEN LongPayloads ELSE PlainPayloads

\* the lengths of the buffer the caller may pass to decode
SrcLens(p) == IF p = "short" THEN {1, MaxLen} ELSE IF p = "long" THEN {BigLen} ELSE {MaxLen}

----------------------------------------------------------------------------
(* LengthPrefixedEncoder::encode *)

\* mutant: the length check left out
TooLargeUnchecked(data) == FALSE

\* line 382: data.len() > u16::MAX
TooLarge(data) == Len(data) > U16_MAX

\* (data.len() as u16).to_be_bytes()
head(data) ==
    LET n16 == Len(data) % 65536
    IN  <<n16 \div 256, n16 % 256>>

\* what write_vectored(&[head, data]) puts on the stream when it accepts w bytes
FirstWrite(data, w) == SubSeq(head(data) \o data, 1, w)

\* mutant: the rest of the payload taken from data[w..] instead of data[w - 2..]
RestWriteNoHeader(data, w) ==
    IF w < 2
    THEN SubSeq(head(data), w + 1, 2) \o data
    ELSE IF w # Len(data) + 2
         THEN SubSeq(data, w + 1, Len(data))
         ELSE <<>>

\* the write_all calls after a write_vectored that accepted w bytes
RestWrite(data, w) ==
    IF w < 2
    THEN SubSeq(head(data), w + 1, 2) \o data
    ELSE IF w # Len(data) + 2
         THEN SubSeq(data, w - 2 + 1, Len(data))
         ELSE <<>>

\* the numbers of bytes the first vectored write may accept
WChoices(data) ==
    LET len == Len(data) + 2
    IN  (0..Min(len, MaxChunk)) \cup {len - 1, len}

EncIdle == [pc |-> "idle", data |-> <<>>, w |-> 0, out |-> <<>>, res |-> [kind |-> "none", n |-> 0]]

\* encode is called; it rejects the payload, or the first vectored write accepts w bytes
EncodeCall(data, w) ==
    /\ enc.pc = "idle"
    /\ ~closed
    /\ IF TooLarge(data)
       THEN /\ Len(rejects) < MaxRejects
            /\ rejects' = Append(rejects, Len(sent))
            /\ enc' = [EncIdle EXCEPT !.res = [kind |-> "OutOfMemory", n |-> 0]]
            /\ UNCHANGED <<wire, sent>>
       ELSE /\ Len(sent) < MaxFrames
            /\ w \in WChoices(data)
            /\ wire' = wire \o FirstWrite(data, w)
            /\ sent' = Append(sent, data)
            /\ enc' = [pc |-> "rest", data |-> data, w |-> w, out |-> FirstWrite(data, w),
                       res |-> [kind |-> "none", n |-> 0]]
            /\ UNCHANGED rejects
    /\ UNCHANGED <<dec, recvd, profile, closed, cancels, refused, dnsVars, cfgVars, nodeVars, tunVars, coreVars>>

\* the write_all calls complete and encode returns Ok(data.len())
EncodeRest ==
    /\ enc.pc = "rest"
    /\ wire' = wire \o RestWrite(enc.data, enc.w)
    /\ enc' = [enc EXCEPT !.pc = "idle",
                          !.out = @ \o RestWrite(enc.data, enc.w),
                          !.res = [kind |-> "ok", n |-> Len(enc.data)]]
    /\ UNCHANGED <<sent, rejects, dec, recvd, profile, closed, cancels, refused, dnsVars, cfgVars, nodeVars, tunVars, coreVars>>

----------------------------------------------------------------------------
(* LengthPrefixedDecoder::decode *)

\* polls: the parity of the number of reads of the current call that returned 0
DecNew == [pc |-> "idle", offset |-> 0, buf |-> <<>>, src |-> <<>>, data_len |-> 0,
           polls |-> 0, res |-> [kind |-> "none", n |-> 0]]

\* lines 345-351: grow buf to src.len() + 2
Resize(buf, srcLen) ==
    LET len == srcLen + 2
    IN  IF Len(buf) < len THEN buf \o Fill(len - Len(buf), Uninit) ELSE buf

\* ((buf[0] as usize) << 8) | buf[1] as usize
DataLen(buf) == buf[1] * 256 + buf[2]

\* src[..data_len].copy_from_slice(&buf[2..len])
CopyOut(src, buf, data_len) ==
    SubSeq(buf, 3, data_len + 2) \o SubSeq(src, data_len + 1, Len(src))

\* mutant: the returned frame is not removed from buf
AdvanceNothing(buf, len) == buf

\* BytesMut::advance(len)
Advance(buf, len) == SubSeq(buf, len + 1, Len(buf))

\* the body loop, from its top to the next read or to the return
RunBody(d) ==
    LET len == d.data_len + 2
    IN  IF len = d.offset
        THEN [d EXCEPT !.src = CopyOut(d.src, d.buf, d.data_len),
                       !.offset = 0,
                       !.pc = "idle",
                       !.res = [kind |-> "ok", n |-> d.data_len]]
        ELSE IF len < d.offset
        THEN [d EXCEPT !.src = CopyOut(d.src, d.buf, d.data_len),
                       !.buf = Advance(d.buf, len),
                       !.offset = d.offset - len,
                       !.pc = "idle",
                       !.res = [kind |-> "ok", n |-> d.data_len]]
        ELSE [d EXCEPT !.pc = "body"]

\* mutant: a frame that exactly fills the caller's buffer is refused
TooBigOrEqual(data_len, src) == data_len >= Len(src)

\* line 357: data_len > src.len()
TooBig(data_len, src) == data_len > Len(src)

\* mutant: the frame that does not fit is dropped from the decoder
OutOfMemoryDiscard(d) ==
    [d EXCEPT !.pc = "idle", !.offset = 0, !.res = [kind |-> "OutOfMemory", n |-> 0]]

\* lines 357-359: return Err(OutOfMemory); offset and buf stay as they are
OutOfMemory(d) == [d EXCEPT !.pc = "idle", !.res = [kind |-> "OutOfMemory", n |-> 0]]

\* the header loop, from its top to the next read or to the return
RunHeader(d) ==
    IF d.offset < 2
    THEN [d EXCEPT !.pc = "hdr"]
    ELSE LET data_len == DataLen(d.buf)
         IN  IF TooBig(data_len, d.src)
             THEN OutOfMemory(d)
             ELSE RunBody([d EXCEPT !.data_len = data_len])

\* read.read(&mut buf[offset..]) returning k bytes
ReadInto(d, k) ==
    [d EXCEPT !.buf = SubSeq(d.buf, 1, d.offset) \o SubSeq(wire, 1, k)
                        \o SubSeq(d.buf, d.offset + k + 1, Len(d.buf)),
              !.offset = d.offset + k]

\* the frame a decode call returned
Returned(d) == SubSeq(d.src, 1, d.res.n)

Deliver(d) ==
    IF d.pc = "idle" /\ d.res.kind = "ok" THEN Append(recvd, Returned(d)) ELSE recvd

Refuse(d) ==
    IF d.pc = "idle" /\ d.res.kind = "OutOfMemory" THEN refused \cup {Len(recvd) + 1} ELSE refused

\* decode is called with a buffer of srcLen bytes and runs to its first read or return
DecodeCall(srcLen) ==
    /\ dec.pc = "idle"
    /\ LET d == RunHeader([dec EXCEPT !.buf = Resize(dec.buf, srcLen),
                                      !.src = Fill(srcLen, Untouched),
                                      !.data_len = 0,
                                      !.polls = 0,
                                      !.res = [kind |-> "none", n |-> 0]])
       IN  /\ dec' = d
           /\ recvd' = Deliver(d)
           /\ refused' = Refuse(d)
    /\ UNCHANGED <<wire, enc, sent, rejects, profile, closed, cancels, dnsVars, cfgVars, nodeVars, tunVars, coreVars>>

\* the sizes a read of the stream may return
ReadChoices ==
    LET most == Min(Len(wire), Len(dec.buf) - dec.offset)
    IN  (1..Min(most, MaxChunk)) \cup (IF most >= 1 THEN {most} ELSE {})

\* a pending read returns k bytes and decode runs to its next read or return
DecodeRead(k) ==
    /\ dec.pc \in {"hdr", "body"}
    /\ k \in ReadChoices
    /\ LET r == ReadInto(dec, k)
           d == IF dec.pc = "hdr" THEN RunHeader(r) ELSE RunBody(r)
       IN  /\ dec' = d
           /\ recvd' = Deliver(d)
           /\ refused' = Refuse(d)
    /\ wire' = SubSeq(wire, k + 1, Len(wire))
    /\ UNCHANGED <<enc, sent, rejects, profile, closed, cancels, dnsVars, cfgVars, nodeVars, tunVars, coreVars>>

\* the peer closes the connection; an encode call it was in is cut short
Close ==
    /\ ~closed
    /\ closed' = TRUE
    /\ enc' = IF enc.pc = "rest"
              THEN [enc EXCEPT !.pc = "idle", !.res = [kind |-> "BrokenPipe", n |-> 0]]
              ELSE enc
    /\ UNCHANGED <<wire, sent, rejects, dec, recvd, profile, cancels, refused, dnsVars, cfgVars, nodeVars, tunVars, coreVars>>

\* a pending read returns Ok(0), the stream being closed and drained: offset += 0 and
\* decode runs from the top of its loop to the next read or return
DecodeReadEof ==
    /\ dec.pc \in {"hdr", "body"}
    /\ closed /\ wire = <<>>
    /\ LET r == [ReadInto(dec, 0) EXCEPT !.polls = 1 - @]
           d == IF dec.pc = "hdr" THEN RunHeader(r) ELSE RunBody(r)
       IN  /\ dec' = d
           /\ recvd' = Deliver(d)
           /\ refused' = Refuse(d)
    /\ UNCHANGED <<wire, enc, sent, rejects, profile, closed, cancels, dnsVars, cfgVars, nodeVars, tunVars, coreVars>>

\* mutant: the bytes read so far go with the abandoned call
AbandonLosing(d) ==
    [d EXCEPT !.pc = "idle", !.offset = 0, !.res = [kind |-> "cancelled", n |-> 0]]

\* the future of a decode call is dropped at a read: offset and buf are fields of the
\* decoder and outlive the call
Abandon(d) == [d EXCEPT !.pc = "idle", !.res = [kind |-> "cancelled", n |-> 0]]

\* the caller abandons the decode call at the read it awaits
Cancel ==
    /\ dec.pc \in {"hdr", "body"}
    /\ Len(cancels) < MaxCancels
    /\ dec' = Abandon(dec)
    /\ cancels' = Append(cancels, [offset |-> dec.offset, at |-> Len(recvd)])
    /\ UNCHANGED <<wire, enc, sent, rejects, recvd, profile, closed, refused, dnsVars, cfgVars, nodeVars, tunVars, coreVars>>

----------------------------------------------------------------------------
(* src/src/extend/dns_query.rs *)

\* Duration::from_secs(3) of the wait for a response
TIMEOUT_SECS == 3
\* the bound of count in query's loop
MAX_COUNT == 3

Tasks == {"txt", "a", "aaaa"}

\* "bad" stands for a name server string that is no socket address
ServerNames == {"ns1", "ns2", "bad"}

ServerLists == SeqsUpTo(ServerNames, MaxServers)

\* mutant: the built-in servers in the other order
DefaultServersSwapped == <<"114.114.114.114:53", "223.5.5.5:53">>

\* the servers dns_query_txt falls back to
DefaultServers == <<"223.5.5.5:53", "114.114.114.114:53">>

\* the domain argument, split at its last ':' : a socket address, a host name with a
\* port, a host name without one
Domains == {<<"192.0.2.7", 3478>>, <<"stun.example", 19302>>, <<"stun.example">>}

\* line 49: SocketAddr::from_str(domain) succeeds
IsSocketAddr(domain) == Len(domain) = 2 /\ domain[1] = "192.0.2.7"

\* lines 61-66: rfind(':') and u16::from_str succeed
HasPort(domain) == Len(domain) = 2

\* SocketAddr::new(ip.into(), port)
SocketAddrNew(ip, port) == [srv |-> ip.srv, rt |-> ip.rt, port |-> port]

\* the addresses of rs with the port added, in the order of rs
WithPort(rs, port) == [n \in 1..Len(rs) |-> SocketAddrNew(rs[n], port)]

\* what may come back for a request: a well-formed answer with records of the type
\* asked for, one with records of other types only, one with no record, one with an
\* error code, bytes that do not parse, a TXT record that is no UTF-8, an error of recv
Responses == {"records", "other", "noanswer", "rcode", "garbage", "badtext", "ioerr"}

TaskOff == [pc |-> "off", count |-> 0, waited |-> 0, nsend |-> 0, rs |-> <<>>, e |-> "none"]

\* the task returns; its timer is dropped
TaskDone(t, rs, e) == [t EXCEPT !.pc = "done", !.waited = 0, !.rs = rs, !.e = e]

\* line 179 / 213 / 231: name_server.parse()?
StartTask(name_server) ==
    IF name_server = "bad"
    THEN TaskDone(TaskOff, <<>>, "addr")
    ELSE [TaskOff EXCEPT !.pc = "setup"]

\* given and domain: the arguments of the call; sys: to_socket_addrs was called
DnsIdle == [fn |-> "none", pc |-> "idle", list |-> <<>>, i |-> 0, err |-> <<>>,
            given |-> <<>>, domain |-> <<>>, sys |-> FALSE,
            res |-> [kind |-> "none", val |-> <<>>]]

\* bind_udp and udp.connect succeed or fail
QuerySetup(t, ok) ==
    /\ q[t].pc = "setup"
    /\ q' = [q EXCEPT ![t] = IF ok THEN [@ EXCEPT !.pc = "send", !.count = 0]
                                  ELSE TaskDone(@, <<>>, "setup")]
    /\ UNCHANGED <<dns, contacted, outcomes, codecVars, cfgVars, nodeVars, tunVars, coreVars>>

\* udp.send(&packet) at the top of the loop
QuerySend(t, ok) ==
    /\ q[t].pc = "send"
    /\ IF ok
       THEN /\ q' = [q EXCEPT ![t] = [@ EXCEPT !.pc = "wait", !.waited = 0, !.nsend = @ + 1]]
            /\ contacted' = contacted \cup {dns.i}
       ELSE /\ q' = [q EXCEPT ![t] = TaskDone(@, <<>>, "send")]
            /\ UNCHANGED contacted
    /\ UNCHANGED <<dns, outcomes, codecVars, cfgVars, nodeVars, tunVars, coreVars>>

\* a second passes for every task waiting for a response
Tick ==
    /\ \E t \in Tasks : q[t].pc = "wait"
    /\ \A t \in Tasks : q[t].pc = "wait" => q[t].waited < TIMEOUT_SECS
    /\ q' = [t \in Tasks |-> IF q[t].pc = "wait" THEN [q[t] EXCEPT !.waited = @ + 1] ELSE q[t]]
    /\ UNCHANGED <<dns, contacted, outcomes, codecVars, cfgVars, nodeVars, tunVars, coreVars>>

\* mutant: one more round before giving up
AgainOnceMore(count) == count <= MAX_COUNT

\* line 145: if count < 3 { continue }
Again(count) == count < MAX_COUNT

\* tokio::time::timeout elapses: lines 143-149
QueryTimeout(t) ==
    /\ q[t].pc = "wait"
    /\ q[t].waited = TIMEOUT_SECS
    /\ LET count == q[t].count + 1
       IN  q' = [q EXCEPT ![t] = IF Again(count)
                                  THEN [@ EXCEPT !.pc = "send", !.count = count]
                                  ELSE TaskDone([@ EXCEPT !.count = count], <<>>, "timeout")]
    /\ UNCHANGED <<dns, contacted, outcomes, codecVars, cfgVars, nodeVars, tunVars, coreVars>>

\* the record type a task asks for
RecordType(t) == IF t = "txt" THEN "TXT" ELSE IF t = "a" THEN "A" ELSE "AAAA"

\* udp.recv returns within the timeout: lines 140-142, 153-171 and the caller's loop
\* over the answers
QueryRecv(t, resp) ==
    /\ q[t].pc = "wait"
    /\ resp = "badtext" => t = "txt"
    /\ q' = [q EXCEPT ![t] =
                CASE resp = "ioerr"    -> TaskDone(@, <<>>, "recv")
                  [] resp = "garbage"  -> TaskDone(@, <<>>, "parse")
                  [] resp = "rcode"    -> TaskDone(@, <<>>, "rcode")
                  [] resp = "noanswer" -> TaskDone(@, <<>>, "norecords")
                  [] resp = "badtext"  -> TaskDone(@, <<>>, "utf8")
                  [] resp = "other"    -> TaskDone(@, <<>>, "none")
                  [] resp = "records"  -> TaskDone(@, <<[srv |-> dns.i, rt |-> RecordType(t)]>>, "none")]
    /\ UNCHANGED <<dns, contacted, outcomes, codecVars, cfgVars, nodeVars, tunVars, coreVars>>

\* the error of task t at the current server (its text is left out)
ErrOf(t) == [srv |-> dns.i, t |-> t]

\* the function returns
Return(kind, val) == [dns EXCEPT !.pc = "done", !.res = [kind |-> kind, val |-> val]]

\* lines 38-42 and 112-116
ReturnErr(err) == Return("err", IF err # <<>> THEN err ELSE <<"DNS query failed">>)

\* dns_query_txt is called: lines 16-22
DnsQueryTxt(name_servers) ==
    /\ dns.pc = "idle"
    /\ LET list == IF name_servers = <<>> THEN DefaultServers ELSE name_servers
       IN  /\ dns' = [DnsIdle EXCEPT !.fn = "txt", !.pc = "loop", !.list = list, !.i = 1,
                                      !.given = name_servers]
           /\ q' = [q EXCEPT !["txt"] = StartTask(list[1])]
    /\ UNCHANGED <<contacted, outcomes, codecVars, cfgVars, nodeVars, tunVars, coreVars>>

\* mutant: the first Ok ends the loop, empty or not
UsableAlways(rs) == TRUE

\* line 24: !addr.is_empty()
Usable(rs) == rs # <<>>

\* what a server yielded, from the results of its tasks
Yield(ts) ==
    IF \E t \in ts : q[t].e = "none" /\ q[t].rs # <<>> THEN "answer"
    ELSE IF \E t \in ts : q[t].e = "none" THEN "empty"
    ELSE "failed"

\* txt_dns has returned: lines 22-36, then the next server or lines 38-42
TxtStep ==
    /\ dns.fn = "txt" /\ dns.pc = "loop"
    /\ q["txt"].pc = "done"
    /\ outcomes' = Append(outcomes, Yield({"txt"}))
    /\ IF q["txt"].e = "none" /\ Usable(q["txt"].rs)
       THEN /\ dns' = Return("ok", q["txt"].rs)
            /\ q' = [q EXCEPT !["txt"] = TaskOff]
       ELSE LET err == IF q["txt"].e = "none" THEN dns.err ELSE Append(dns.err, ErrOf("txt"))
            IN  IF dns.i < Len(dns.list)
                THEN /\ dns' = [dns EXCEPT !.i = @ + 1, !.err = err]
                     /\ q' = [q EXCEPT !["txt"] = StartTask(dns.list[dns.i + 1])]
                ELSE /\ dns' = [ReturnErr(err) EXCEPT !.err = err]
                     /\ q' = [q EXCEPT !["txt"] = TaskOff]
    /\ UNCHANGED <<contacted, codecVars, cfgVars, nodeVars, tunVars, coreVars>>

\* lines 67-78: a_dns and aaaa_dns are spawned for one name server
Spawn(name_server) ==
    [t \in Tasks |-> IF t \in {"a", "aaaa"} THEN StartTask(name_server) ELSE TaskOff]

\* dns_query_all is called: lines 49-78
DnsQueryAll(domain, name_servers, resolved) ==
    /\ dns.pc = "idle"
    /\ LET call == [DnsIdle EXCEPT !.fn = "all", !.list = name_servers,
                                    !.given = name_servers, !.domain = domain]
       IN  IF IsSocketAddr(domain)
           THEN /\ dns' = [call EXCEPT !.pc = "done",
                                       !.res = [kind |-> "ok",
                                                val |-> <<[ip |-> domain[1], port |-> domain[2]]>>]]
                /\ UNCHANGED q
           ELSE IF name_servers = <<>>
           THEN /\ dns' = [call EXCEPT !.pc = "done", !.sys = TRUE,
                                       !.res = IF resolved
                                               THEN [kind |-> "ok", val |-> <<"system">>]
                                               ELSE [kind |-> "err", val |-> <<"DNS query failed">>]]
                /\ UNCHANGED q
           ELSE IF ~HasPort(domain)
           THEN /\ dns' = [call EXCEPT !.pc = "done", !.i = 1,
                                       !.res = [kind |-> "err", val |-> <<"not port">>]]
                /\ UNCHANGED q
           ELSE /\ dns' = [call EXCEPT !.pc = "loop", !.i = 1]
                /\ q' = Spawn(name_servers[1])
    /\ UNCHANGED <<contacted, outcomes, codecVars, cfgVars, nodeVars, tunVars, coreVars>>

\* mutant: the AAAA addresses come first
CollectAaaaFirst(a_rs, aaaa_rs) == aaaa_rs \o a_rs

\* lines 79-95: addr takes the result of th1, then that of th2
Collect(a_rs, aaaa_rs) == a_rs \o aaaa_rs

\* mutant: an empty list of addresses is returned as it is
IsEmptyNever(addr) == FALSE

\* line 107: addr.is_empty()
IsEmpty(addr) == addr = <<>>

\* both tasks of the current server have ended: lines 79-110, then the next server
\* or lines 112-116; the results of the tasks of the last server stay in q
AllStep ==
    /\ dns.fn = "all" /\ dns.pc = "loop"
    /\ q["a"].pc = "done" /\ q["aaaa"].pc = "done"
    /\ outcomes' = Append(outcomes, Yield({"a", "aaaa"}))
    /\ LET port  == dns.domain[2]
           addr1 == IF q["a"].e = "none" THEN WithPort(q["a"].rs, port) ELSE <<>>
           err1  == IF q["a"].e = "none" THEN dns.err ELSE <<ErrOf("a")>>
           addr  == IF q["aaaa"].e = "none"
                    THEN Collect(addr1, WithPort(q["aaaa"].rs, port))
                    ELSE addr1
           err   == IF q["aaaa"].e # "none" /\ addr1 = <<>>
                    THEN Append(err1, ErrOf("aaaa"))
                    ELSE err1
       IN  IF ~IsEmpty(addr)
           THEN /\ dns' = [Return("ok", addr) EXCEPT !.err = err]
                /\ UNCHANGED q
           ELSE IF dns.i < Len(dns.list)
           THEN /\ dns' = [dns EXCEPT !.i = @ + 1, !.err = err]
                /\ q' = Spawn(dns.list[dns.i + 1])
           ELSE /\ dns' = [ReturnErr(err) EXCEPT !.err = err]
                /\ UNCHANGED q
    /\ UNCHANGED <<contacted, codecVars, cfgVars, nodeVars, tunVars, coreVars>>

InitDns ==
    /\ dns = DnsIdle
    /\ q = [t \in Tasks |-> TaskOff]
    /\ contacted = {}
    /\ outcomes = <<>>

NextDns ==
    \/ \E name_servers \in ServerLists : DnsQueryTxt(name_servers)
    \/ \E domain \in Domains, name_servers \in ServerLists, resolved \in BOOLEAN :
          DnsQueryAll(domain, name_servers, resolved)
    \/ \E t \in Tasks, ok \in BOOLEAN : QuerySetup(t, ok)
    \/ \E t \in Tasks, ok \in BOOLEAN : QuerySend(t, ok)
    \/ Tick
    \/ \E t \in Tasks : QueryTimeout(t)
    \/ \E t \in Tasks, resp \in Responses : QueryRecv(t, resp)
    \/ TxtStep
    \/ AllStep

----------------------------------------------------------------------------
(* The configuration records of src/src/config/mod.rs; durations in seconds *)

\* Option: None, and Some(x) of a value; the two pipe configurations, which no code
\* of the crate ever sets to None, are held as the record itself
None == <<>>
Some(x) == <<x>>

MULTI_PIPELINE == 2
UDP_SUB_PIPELINE_NUM == 82
ROUTE_IDLE_TIME == 10

\* mutant: the sub-pipeline fan-out enabled by default
UdpPipeConfigDefaultHigh ==
    [main_pipeline_num |-> MULTI_PIPELINE,
     sub_pipeline_num  |-> UDP_SUB_PIPELINE_NUM,
     model             |-> "High",
     default_interface |-> None,
     udp_ports         |-> <<0, 0>>,
     use_v6            |-> TRUE]

\* impl Default for UdpPipeConfig
UdpPipeConfigDefault ==
    [main_pipeline_num |-> MULTI_PIPELINE,
     sub_pipeline_num  |-> UDP_SUB_PIPELINE_NUM,
     model             |-> "Low",
     default_interface |-> None,
     udp_ports         |-> <<0, 0>>,
     use_v6            |-> TRUE]

\* impl Default for TcpPipeConfig
TcpPipeConfigDefault ==
    [route_idle_time        |-> ROUTE_IDLE_TIME,
     tcp_multiplexing_limit |-> MULTI_PIPELINE,
     default_interface      |-> None,
     tcp_port               |-> 0,
     use_v6                 |-> TRUE]

\* impl Default for PipeConfig; PipeConfig::empty() returns the same
PipeConfigDefault ==
    [first_latency      |-> FALSE,
     multi_pipeline     |-> MULTI_PIPELINE,
     enable_extend      |-> FALSE,
     udp_pipe_config    |-> UdpPipeConfigDefault,
     tcp_pipe_config    |-> TcpPipeConfigDefault,
     route_idle_time    |-> ROUTE_IDLE_TIME,
     self_id            |-> None,
     direct_addrs       |-> None,
     send_buffer_size   |-> 2048,
     query_id_interval  |-> 12,
     query_id_max_num   |-> 5,
     heartbeat_interval |-> 5,
     tcp_stun_servers   |-> Some(<<"stun.flashdance.cx", "stun.sipnet.net", "stun.nextcloud.com:443">>),
     udp_stun_servers   |-> Some(<<"stun.miwifi.com", "stun.chat.bilibili.com", "stun.hitv.com",
                                   "stun.l.google.com:19302", "stun1.l.google.com:19302",
                                   "stun2.l.google.com:19302">>),
     mapping_addrs      |-> None,
     dns                |-> None]

\* LocalInterface::new(index, name)
LocalInterfaceNew(index, name) == [index |-> index, name |-> name]

Eth0 == LocalInterfaceNew(2, Some("eth0"))
Eth1 == LocalInterfaceNew(3, Some("eth1"))

\* arguments the setters are called with
PipelineNums == {1, 3}
PortLists == {<<>>, <<23333, 23334>>, <<0, 0, 0>>}
Ports == {0, 23333}
Intervals == {1, 30}

\* mutant: the number of main pipelines follows the number of ports
Udp_set_udp_ports_coupled(u, udp_ports) ==
    [u EXCEPT !.udp_ports = udp_ports, !.main_pipeline_num = Len(udp_ports)]

Udp_set_main_pipeline_num(u, main_pipeline_num) == [u EXCEPT !.main_pipeline_num = main_pipeline_num]
Udp_set_sub_pipeline_num(u, sub_pipeline_num) == [u EXCEPT !.sub_pipeline_num = sub_pipeline_num]
Udp_set_model(u, model) == [u EXCEPT !.model = model]
Udp_set_udp_ports(u, udp_ports) == [u EXCEPT !.udp_ports = udp_ports]
Udp_set_simple_udp_port(u, udp_port) == [u EXCEPT !.udp_ports = <<udp_port>>]

Udp_set_default_interface(u, default_interface) == [u EXCEPT !.default_interface = Some(default_interface)]
Udp_set_use_v6(u, use_v6) == [u EXCEPT !.use_v6 = use_v6]

Tcp_set_tcp_multiplexing_limit(t, tcp_multiplexing_limit) == [t EXCEPT !.tcp_multiplexing_limit = tcp_multiplexing_limit]
Tcp_set_route_idle_time(t, route_idle_time) == [t EXCEPT !.route_idle_time = route_idle_time]
Tcp_set_default_interface(t, default_interface) == [t EXCEPT !.default_interface = Some(default_interface)]
Tcp_set_tcp_port(t, tcp_port) == [t EXCEPT !.tcp_port = tcp_port]
Tcp_set_use_v6(t, use_v6) == [t EXCEPT !.use_v6 = use_v6]

\* lines 97-99: none_tcp returns self
Pipe_none_tcp(c) == c

\* mutant: the setter starts again from the default configuration
Pipe_set_send_buffer_size_fresh(c, send_buffer_size) ==
    [PipeConfigDefault EXCEPT !.send_buffer_size = send_buffer_size]

Pipe_set_first_latency(c, first_latency) == [c EXCEPT !.first_latency = first_latency]
Pipe_set_enable_extend(c, enable_extend) == [c EXCEPT !.enable_extend = enable_extend]
Pipe_set_tcp_pipe_config(c, tcp_pipe_config) == [c EXCEPT !.tcp_pipe_config = tcp_pipe_config]
Pipe_set_node_id(c, self_id) == [c EXCEPT !.self_id = Some(self_id)]
Pipe_set_direct_addrs(c, direct_addrs) == [c EXCEPT !.direct_addrs = Some(direct_addrs)]
Pipe_set_send_buffer_size(c, send_buffer_size) == [c EXCEPT !.send_buffer_size = send_buffer_size]
Pipe_set_query_id_max_num(c, query_id_max_num) == [c EXCEPT !.query_id_max_num = query_id_max_num]
Pipe_set_tcp_stun_servers(c, tcp_stun_servers) == [c EXCEPT !.tcp_stun_servers = Some(tcp_stun_servers)]
Pipe_set_udp_stun_servers(c, udp_stun_servers) == [c EXCEPT !.udp_stun_servers = Some(udp_stun_servers)]
Pipe_set_mapping_addrs(c, mapping_addrs) == [c EXCEPT !.mapping_addrs = Some(mapping_addrs)]
Pipe_set_dns(c, dns_servers) == [c EXCEPT !.dns = Some(dns_servers)]
Pipe_set_main_pipeline_num(c, main_pipeline_num) == [c EXCEPT !.multi_pipeline = main_pipeline_num]
Pipe_set_udp_pipe_config(c, udp_pipe_config) == [c EXCEPT !.udp_pipe_config = udp_pipe_config]
Pipe_set_query_id_interval(c, query_id_interval) == [c EXCEPT !.query_id_interval = query_id_interval]
Pipe_set_heartbeat_interval(c, heartbeat_interval) == [c EXCEPT !.heartbeat_interval = heartbeat_interval]

Called(name, arg) == calls' = Append(calls, [name |-> name, arg |-> arg])

\* a setter of the UdpPipeConfig builder is called
UdpSetter(name, arg, u) ==
    /\ Len(calls) < MaxCalls
    /\ udp' = u
    /\ Called(name, arg)
    /\ UNCHANGED <<tcp, cfg, codecVars, dnsVars, nodeVars, tunVars, coreVars>>

\* a setter of the PipeConfig builder is called
PipeSetter(name, arg, c) ==
    /\ Len(calls) < MaxCalls
    /\ cfg' = c
    /\ Called(name, arg)
    /\ UNCHANGED <<udp, tcp, codecVars, dnsVars, nodeVars, tunVars, coreVars>>

\* a setter of the TcpPipeConfig builder is called
TcpSetter(name, arg, t) ==
    /\ Len(calls) < MaxCalls
    /\ tcp' = t
    /\ Called(name, arg)
    /\ UNCHANGED <<udp, cfg, codecVars, dnsVars, nodeVars, tunVars, coreVars>>

InitConfig ==
    /\ udp = UdpPipeConfigDefault
    /\ tcp = TcpPipeConfigDefault
    /\ cfg = PipeConfigDefault
    /\ calls = <<>>

NextConfig ==
    \/ \E n \in PipelineNums : UdpSetter("Udp.set_main_pipeline_num", n, Udp_set_main_pipeline_num(udp, n))
    \/ \E n \in PipelineNums : UdpSetter("Udp.set_sub_pipeline_num", n, Udp_set_sub_pipeline_num(udp, n))
    \/ \E m \in {"High", "Low"} : UdpSetter("Udp.set_model", m, Udp_set_model(udp, m))
    \/ \E ps \in PortLists : UdpSetter("Udp.set_udp_ports", ps, Udp_set_udp_ports(udp, ps))
    \/ \E p \in Ports : UdpSetter("Udp.set_simple_udp_port", p, Udp_set_simple_udp_port(udp, p))
    \/ \E n \in PipelineNums : PipeSetter("set_main_pipeline_num", n, Pipe_set_main_pipeline_num(cfg, n))
    \/ PipeSetter("set_udp_pipe_config", udp, Pipe_set_udp_pipe_config(cfg, udp))
    \/ \E d \in Intervals : PipeSetter("set_query_id_interval", d, Pipe_set_query_id_interval(cfg, d))
    \/ \E d \in Intervals : PipeSetter("set_heartbeat_interval", d, Pipe_set_heartbeat_interval(cfg, d))
    \/ UdpSetter("Udp.set_default_interface", Eth0, Udp_set_default_interface(udp, Eth0))
    \/ UdpSetter("Udp.set_use_v6", FALSE, Udp_set_use_v6(udp, FALSE))
    \/ TcpSetter("Tcp.set_tcp_multiplexing_limit", 4, Tcp_set_tcp_multiplexing_limit(tcp, 4))
    \/ TcpSetter("Tcp.set_route_idle_time", 60, Tcp_set_route_idle_time(tcp, 60))
    \/ TcpSetter("Tcp.set_default_interface", Eth1, Tcp_set_default_interface(tcp, Eth1))
    \/ TcpSetter("Tcp.set_tcp_port", 23333, Tcp_set_tcp_port(tcp, 23333))
    \/ TcpSetter("Tcp.set_use_v6", FALSE, Tcp_set_use_v6(tcp, FALSE))
    \/ PipeSetter("none_tcp", "self", Pipe_none_tcp(cfg))
    \/ PipeSetter("set_first_latency", TRUE, Pipe_set_first_latency(cfg, TRUE))
    \/ PipeSetter("set_enable_extend", TRUE, Pipe_set_enable_extend(cfg, TRUE))
    \/ PipeSetter("set_tcp_pipe_config", tcp, Pipe_set_tcp_pipe_config(cfg, tcp))
    \/ PipeSetter("set_node_id", "10.26.0.2", Pipe_set_node_id(cfg, "10.26.0.2"))
    \/ PipeSetter("set_direct_addrs", <<"tcp://192.168.10.13:23333">>,
                  Pipe_set_direct_addrs(cfg, <<"tcp://192.168.10.13:23333">>))
    \/ PipeSetter("set_send_buffer_size", 4096, Pipe_set_send_buffer_size(cfg, 4096))
    \/ PipeSetter("set_query_id_max_num", 1, Pipe_set_query_id_max_num(cfg, 1))
    \/ PipeSetter("set_tcp_stun_servers", <<"stun.example:3478">>,
                  Pipe_set_tcp_stun_servers(cfg, <<"stun.example:3478">>))
    \/ PipeSetter("set_udp_stun_servers", <<>>, Pipe_set_udp_stun_servers(cfg, <<>>))
    \/ PipeSetter("set_mapping_addrs", <<"udp://203.0.113.9:23333">>,
                  Pipe_set_mapping_addrs(cfg, <<"udp://203.0.113.9:23333">>))
    \/ PipeSetter("set_dns", <<"223.5.5.5:53">>, Pipe_set_dns(cfg, <<"223.5.5.5:53">>))

----------------------------------------------------------------------------
(* The conversions into the configuration of rust_p2p_core, and the codec factory *)

\* mutant: every model becomes Low
FromModelLow(value) == "udp_pipe::Model::Low"

\* impl From<Model> for rust_p2p_core::pipe::udp_pipe::Model
FromModel(value) ==
    CASE value = "High" -> "udp_pipe::Model::High"
      [] value = "Low"  -> "udp_pipe::Model::Low"

\* impl From<LocalInterface> for rust_p2p_core::socket::LocalInterface
FromLocalInterface(value) == LocalInterfaceNew(value.index, value.name)

\* value.default_interface.map(|v| v.into())
MapLocalInterface(opt) == [n \in 1..Len(opt) |-> FromLocalInterface(opt[n])]

\* impl From<UdpPipeConfig> for rust_p2p_core::pipe::config::UdpPipeConfig
FromUdpPipeConfig(value) ==
    [main_pipeline_num |-> value.main_pipeline_num,
     sub_pipeline_num  |-> value.sub_pipeline_num,
     model             |-> FromModel(value.model),
     default_interface |-> MapLocalInterface(value.default_interface),
     udp_ports         |-> value.udp_ports,
     use_v6            |-> value.use_v6]

\* impl From<TcpPipeConfig> for rust_p2p_core::pipe::config::TcpPipeConfig
FromTcpPipeConfig(value) ==
    [route_idle_time        |-> value.route_idle_time,
     tcp_multiplexing_limit |-> value.tcp_multiplexing_limit,
     default_interface      |-> MapLocalInterface(value.default_interface),
     tcp_port               |-> value.tcp_port,
     use_v6                 |-> value.use_v6,
     init_codec             |-> "LengthPrefixedInitCodec"]

\* impl From<PipeConfig> for rust_p2p_core::pipe::config::PipeConfig
FromPipeConfig(value) ==
    [first_latency   |-> value.first_latency,
     multi_pipeline  |-> value.multi_pipeline,
     route_idle_time |-> value.route_idle_time,
     udp_pipe_config |-> FromUdpPipeConfig(value.udp_pipe_config),
     tcp_pipe_config |-> FromTcpPipeConfig(value.tcp_pipe_config),
     enable_extend   |-> value.enable_extend]

\* no conversion made yet
NotConverted == [converted |-> FALSE]

\* the UdpPipeConfig values a caller may have built
UdpInputs ==
    {Udp_set_use_v6(Udp_set_udp_ports(Udp_set_model(UdpPipeConfigDefault, m), ps), v6) :
        m \in {"High", "Low"}, ps \in PortLists, v6 \in BOOLEAN}
    \cup {Udp_set_default_interface(Udp_set_sub_pipeline_num(Udp_set_main_pipeline_num(
               UdpPipeConfigDefault, n), n), Eth0) : n \in PipelineNums}

\* the TcpPipeConfig values a caller may have built
TcpInputs ==
    {Tcp_set_use_v6(Tcp_set_tcp_port(TcpPipeConfigDefault, p), v6) : p \in Ports, v6 \in BOOLEAN}
    \cup {Tcp_set_default_interface(Tcp_set_route_idle_time(Tcp_set_tcp_multiplexing_limit(
               TcpPipeConfigDefault, 4), 60), Eth1)}

\* the PipeConfig values a caller may have built
PipeInputs ==
    {Pipe_set_tcp_pipe_config(Pipe_set_udp_pipe_config(Pipe_set_enable_extend(
         Pipe_set_first_latency(Pipe_set_main_pipeline_num(PipeConfigDefault, n), b), b), u), t) :
        n \in PipelineNums \cup {MULTI_PIPELINE}, b \in BOOLEAN, u \in UdpInputs, t \in TcpInputs}

\* value.into(): the configuration is converted
Convert ==
    /\ core = NotConverted
    /\ core' = FromPipeConfig(cfg)
    /\ UNCHANGED <<conns, codecVars, dnsVars, cfgVars, nodeVars, tunVars>>

\* LengthPrefixedInitCodec::codec: a new decoder and a new encoder
Codec(addr) == [dec |-> DecNew, enc |-> EncIdle]

\* the core calls init_codec.codec(addr) for a new TCP connection
CodecCall ==
    /\ core # NotConverted
    /\ core.tcp_pipe_config.init_codec = "LengthPrefixedInitCodec"
    /\ Len(conns) < MaxConns
    /\ conns' = Append(conns, Codec(Len(conns) + 1))
    /\ UNCHANGED <<core, codecVars, dnsVars, cfgVars, nodeVars, tunVars>>

\* decode on connection c, called with a buffer of srcLen bytes, reads the first byte
\* of a header and waits for more
ConnDecode(c, srcLen, byte) ==
    /\ c \in 1..Len(conns)
    /\ conns[c].dec.offset = 0
    /\ LET d == conns[c].dec
           b == Resize(d.buf, srcLen)
       IN  conns' = [conns EXCEPT ![c].dec =
                        [d EXCEPT !.buf = <<byte>> \o SubSeq(b, 2, Len(b)),
                                  !.offset = 1,
                                  !.pc = "hdr"]]
    /\ UNCHANGED <<core, codecVars, dnsVars, cfgVars, nodeVars, tunVars>>

InitCore ==
    /\ core = NotConverted
    /\ conns = <<>>

NextCore ==
    \/ Convert
    \/ CodecCall
    \/ \E c \in 1..MaxConns, byte \in {0, 1} : ConnDecode(c, MaxLen, byte)

----------------------------------------------------------------------------
(* src/examples/node.rs: the accept loop of main and the recv task of each line *)

LineIds == 1..MaxLines

\* what line.recv_from yields: an error of the line, a packet that could not be
\* handled, a packet to relay, a packet for this node
RecvResults == {"RecvError", "HandleError", "Turn", "UserData"}

\* the node ids a relayed packet may be addressed to
DestIds == {"peerA", "peerB"}

NoDest == "none"

LineNone == [pc |-> "none", n |-> 0, kinds |-> <<>>, last |-> "none", dest |-> NoDest]

\* packet k of line l as recv_from left it in buf: the protocol header, then the payload
NetPacket(l, k) == [header |-> <<"header", l, k>>, payload |-> <<"payload", l, k>>]

\* NetPacket::buffer(): the whole packet
buffer(pkt) == pkt.header \o pkt.payload

\* NetPacket::payload(): what follows the header
payload(pkt) == pkt.payload

\* mutant: a relayed packet loses its header
TurnDataStripped(pkt) == payload(pkt)

\* line 103: send_to(buf.buffer(), &dest_id)
TurnData(pkt) == buffer(pkt)

\* line 108: device.send(buf.payload())
UserDataData(pkt) == payload(pkt)

\* mutant: a packet to relay is dropped and the next one received
AfterRecvFromDropTurn(rs) ==
    CASE rs = "RecvError"   -> "returned"
      [] rs = "HandleError" -> "recv"
      [] rs = "Turn"        -> "recv"
      [] rs = "UserData"    -> "user"

\* lines 87-111: where the task goes with what recv_from yielded
AfterRecvFrom(rs) ==
    CASE rs = "RecvError"   -> "returned"
      [] rs = "HandleError" -> "recv"
      [] rs = "Turn"        -> "turn"
      [] rs = "UserData"    -> "user"

\* mutant: a failed send ends the task, as with the ? operator
AfterSendPropagate(ok) == IF ok THEN "recv" ELSE "returned"

\* lines 103-105 and 108-110: a failed send is logged and the loop goes on
AfterSend(ok) == "recv"

\* lines 78-82: main accepts a PipeLine and spawns its recv task
Accept(l) ==
    /\ proc = "running"
    /\ lines[l].pc = "none"
    /\ \A m \in LineIds : m < l => lines[m].pc # "none"
    /\ lines' = [lines EXCEPT ![l] = [LineNone EXCEPT !.pc = "recv"]]
    /\ UNCHANGED <<proc, log, codecVars, dnsVars, cfgVars, tunVars, coreVars>>

\* line 79: pipe.accept() fails, main returns and the process ends
AcceptFail ==
    /\ proc = "running"
    /\ proc' = "accept_failed"
    /\ UNCHANGED <<lines, log, codecVars, dnsVars, cfgVars, tunVars, coreVars>>

\* the number of packets received so far
Received ==
    LET upTo[i \in 0..MaxLines] == IF i = 0 THEN 0 ELSE upTo[i - 1] + lines[i].n
    IN  upTo[MaxLines]

\* lines 87-100: recv_from returns on line l
RecvFrom(l, rs, dest_id) ==
    /\ proc = "running"
    /\ lines[l].pc = "recv"
    /\ rs # "RecvError" => Received < MaxPackets
    /\ dest_id \in (IF rs = "Turn" THEN DestIds ELSE {NoDest})
    /\ lines' = [lines EXCEPT ![l] =
                    IF rs = "RecvError"
                    THEN [@ EXCEPT !.pc = AfterRecvFrom(rs), !.last = rs]
                    ELSE [@ EXCEPT !.pc = AfterRecvFrom(rs), !.last = rs, !.dest = dest_id,
                                   !.n = @ + 1, !.kinds = Append(@, rs)]]
    /\ UNCHANGED <<proc, log, codecVars, dnsVars, cfgVars, tunVars, coreVars>>

\* lines 102-106: line.send_to(buf.buffer(), &dest_id) returns
SendTo(l, ok) ==
    /\ proc = "running"
    /\ lines[l].pc = "turn"
    /\ log' = Append(log, [line |-> l, k |-> lines[l].n, to |-> "overlay", ok |-> ok,
                            dest |-> lines[l].dest, data |-> TurnData(NetPacket(l, lines[l].n))])
    /\ lines' = [lines EXCEPT ![l] = [@ EXCEPT !.pc = AfterSend(ok), !.dest = NoDest,
                                               !.last = IF ok THEN "Relayed" ELSE "TurnFailed"]]
    /\ UNCHANGED <<proc, codecVars, dnsVars, cfgVars, tunVars, coreVars>>

\* lines 107-111: device.send(buf.payload()) returns
DeviceSend(l, ok) ==
    /\ proc = "running"
    /\ lines[l].pc = "user"
    /\ log' = Append(log, [line |-> l, k |-> lines[l].n, to |-> "tun", ok |-> ok,
                            dest |-> NoDest, data |-> UserDataData(NetPacket(l, lines[l].n))])
    /\ lines' = [lines EXCEPT ![l] = [@ EXCEPT !.pc = AfterSend(ok),
                                               !.last = IF ok THEN "Delivered" ELSE "UserDataFailed"]]
    /\ UNCHANGED <<proc, codecVars, dnsVars, cfgVars, tunVars, coreVars>>

InitNode ==
    /\ proc = "running"
    /\ lines = [l \in LineIds |-> LineNone]
    /\ log = <<>>

NextNode ==
    \/ \E l \in LineIds : Accept(l)
    \/ AcceptFail
    \/ \E l \in LineIds, rs \in RecvResults, dest_id \in DestIds \cup {NoDest} : RecvFrom(l, rs, dest_id)
    \/ \E l \in LineIds, ok \in BOOLEAN : SendTo(l, ok)
    \/ \E l \in LineIds, ok \in BOOLEAN : DeviceSend(l, ok)

----------------------------------------------------------------------------
(* src/examples/node.rs: tun_recv, the reader of the TUN device *)

\* first bytes of the IP packets the TUN device yields: IPv4 with a 20-byte header, IPv6
FirstBytes == {69, 96}

\* destination addresses: limited broadcast, multicast, unspecified, the broadcast
\* address of the /24, two hosts
DestIps == {<<255, 255, 255, 255>>, <<224, 0, 0, 251>>, <<0, 0, 0, 0>>,
            <<10, 26, 0, 255>>, <<10, 26, 0, 3>>, <<10, 26, 1, 4>>}

\* lengths of the packets read (whole IP packets: a header at least)
TunLens == {20, 84}

\* Ipv4Addr::is_broadcast
is_broadcast(ip) == ip = <<255, 255, 255, 255>>

\* Ipv4Addr::is_multicast
is_multicast(ip) == ip[1] >= 224 /\ ip[1] <= 239

\* Ipv4Addr::is_unspecified
is_unspecified(ip) == ip = <<0, 0, 0, 0>>

\* line 120: payload[0] >> 4 != 4
NotIpv4(b0) == b0 \div 16 # 4

\* lines 124-127
SkipDest(ip) == is_broadcast(ip) \/ is_multicast(ip) \/ is_unspecified(ip) \/ ip[4] = 255

\* mutant: the length of the packet sent before is left in place
set_payload_len_stale(send_packet, payload_len) == send_packet

\* line 131: send_packet.set_payload_len(payload_len)
set_payload_len(send_packet, payload_len) == [send_packet EXCEPT !.payload_len = payload_len]

\* lines 132-137: a failed send is logged and the loop goes on
AfterSendToPacket(ok) == "recv"

TunIdle == [pc |-> "alloc", n |-> 0, skipped |-> 0, last |-> "none",
            send_packet |-> [b0 |-> 0, dest_ip |-> <<0, 0, 0, 0>>, payload_len |-> 0],
            read_len |-> 0]

\* line 116: allocate_send_packet()?
TunAllocate(ok) ==
    /\ tun.pc = "alloc"
    /\ tun' = [tun EXCEPT !.pc = IF ok THEN "recv" ELSE "returned"]
    /\ UNCHANGED <<tunlog, codecVars, dnsVars, cfgVars, nodeVars, coreVars>>

\* line 119: device.recv(payload) fails and the task returns
TunRecvFail ==
    /\ tun.pc = "recv"
    /\ tun' = [tun EXCEPT !.pc = "returned", !.last = "RecvError"]
    /\ UNCHANGED <<tunlog, codecVars, dnsVars, cfgVars, nodeVars, coreVars>>

\* lines 119-131: device.recv(payload) fills the payload of send_packet with a packet
\* of payload_len bytes; the packet is skipped, or its length is committed
TunRecv(b0, dest_ip, payload_len) ==
    /\ tun.pc = "recv"
    /\ tun.n < MaxTunReads
    /\ LET filled == [tun.send_packet EXCEPT !.b0 = b0, !.dest_ip = dest_ip]
       IN  IF NotIpv4(b0) \/ SkipDest(dest_ip)
           THEN tun' = [tun EXCEPT !.n = @ + 1, !.skipped = @ + 1, !.last = "Skipped",
                                   !.send_packet = filled, !.read_len = payload_len]
           ELSE tun' = [tun EXCEPT !.n = @ + 1, !.pc = "send", !.last = "Read",
                                   !.send_packet = set_payload_len(filled, payload_len),
                                   !.read_len = payload_len]
    /\ UNCHANGED <<tunlog, codecVars, dnsVars, cfgVars, nodeVars, coreVars>>

\* lines 132-137: send_to_packet(&mut send_packet, &dest_ip.into()) returns
TunSend(ok) ==
    /\ tun.pc = "send"
    /\ tunlog' = Append(tunlog, [k |-> tun.n, read_len |-> tun.read_len, ok |-> ok,
                                  b0 |-> tun.send_packet.b0,
                                  dest |-> tun.send_packet.dest_ip,
                                  payload_len |-> tun.send_packet.payload_len])
    /\ tun' = [tun EXCEPT !.pc = AfterSendToPacket(ok),
                           !.last = IF ok THEN "Sent" ELSE "SendFailed"]
    /\ UNCHANGED <<codecVars, dnsVars, cfgVars, nodeVars, coreVars>>

InitTun ==
    /\ tun = TunIdle
    /\ tunlog = <<>>

NextTun ==
    \/ \E ok \in BOOLEAN : TunAllocate(ok)
    \/ TunRecvFail
    \/ \E b0 \in FirstBytes, dest_ip \in DestIps, payload_len \in TunLens :
          TunRecv(b0, dest_ip, payload_len)
    \/ \E ok \in BOOLEAN : TunSend(ok)

----------------------------------------------------------------------------

InitCodec ==
    /\ profile \in {"short", "long"}
    /\ wire = <<>>
    /\ enc = EncIdle
    /\ sent = <<>>
    /\ rejects = <<>>
    /\ dec = DecNew
    /\ recvd = <<>>
    /\ closed = FALSE
    /\ cancels = <<>>
    /\ refused = {}

\* no connection in use
CodecQuiet == InitCodec /\ profile = "short"

\* a connection carrying payloads of 1 to MaxLen bytes
InitStream ==
    /\ profile = "plain"
    /\ wire = <<>>
    /\ enc = EncIdle
    /\ sent = <<>>
    /\ rejects = <<>>
    /\ dec = DecNew
    /\ recvd = <<>>
    /\ closed = FALSE
    /\ cancels = <<>>
    /\ refused = {}
    /\ InitDns /\ InitConfig /\ InitNode /\ InitTun /\ InitCore

Init == InitCodec /\ InitDns /\ InitConfig /\ InitNode /\ InitTun /\ InitCore

InitQuiet == CodecQuiet /\ InitDns /\ InitConfig /\ InitNode /\ InitTun /\ InitCore

\* a configuration has been built and is about to be handed to the core
InitBuilt ==
    /\ CodecQuiet /\ InitDns /\ InitNode /\ InitTun /\ InitCore
    /\ cfg \in PipeInputs
    /\ udp = cfg.udp_pipe_config
    /\ tcp = cfg.tcp_pipe_config
    /\ calls = <<>>

NextCodec ==
    \/ \E data \in Payloads(profile) : \E w \in WChoices(data) : EncodeCall(data, w)
    \/ EncodeRest
    \/ \E srcLen \in SrcLens(profile) : DecodeCall(srcLen)
    \/ \E k \in ReadChoices : DecodeRead(k)

\* the codec on one connection
Spec == Init /\ [][NextCodec]_vars

NextStream ==
    \/ \E data \in Payloads(profile) : \E w \in WChoices(data) : EncodeCall(data, w)
    \/ EncodeRest
    \/ \E srcLen \in SrcLens(profile) : DecodeCall(srcLen)
    \/ \E k \in ReadChoices : DecodeRead(k)
    \/ Close
    \/ DecodeReadEof
    \/ Cancel

\* the codec on a connection the peer may close and whose decode calls may be
\* abandoned; a read that can return does return
SpecStream ==
    /\ InitStream
    /\ [][NextStream]_vars
    /\ WF_vars(\E k \in ReadChoices : DecodeRead(k))
    /\ WF_vars(DecodeReadEof)

\* one DNS query
SpecDns == InitQuiet /\ [][NextDns]_vars

\* the builders of the configuration
SpecConfig == InitQuiet /\ [][NextConfig]_vars

\* the example node
SpecNode == InitQuiet /\ [][NextNode]_vars

\* the TUN reader of the example node
SpecTun == InitQuiet /\ [][NextTun]_vars

\* the conversion of a built configuration and the codecs of its TCP connections
SpecCore == InitBuilt /\ [][NextCore]_vars

----------------------------------------------------------------------------
(* Properties of the codec *)

\* the frame of payload p: its length as 2 bytes, big-endian, then its bytes
FrameBytes(p) == <<Len(p) \div 256, Len(p) % 256>> \o p

RECURSIVE Frames(_, _)
\* the frames of ps[i..], concatenated
Frames(ps, i) == IF i > Len(ps) THEN <<>> ELSE FrameBytes(ps[i]) \o Frames(ps, i + 1)

IsPrefix(s, t) == Len(s) <= Len(t) /\ s = SubSeq(t, 1, Len(s))

\* the bytes written and not yet returned in a frame: held by the decoder, then on the stream
InFlight == SubSeq(dec.buf, 1, dec.offset) \o wire

\* the bytes in flight are those of the frames not yet returned: none lost, added or moved
StreamIntact ==
    /\ IsPrefix(InFlight, Frames(sent, Len(recvd) + 1))
    /\ enc.pc = "idle" => InFlight = Frames(sent, Len(recvd) + 1)

\* C1: the payloads decode returns are the payloads encode accepted, in order and
\* whole, whatever the sizes of the reads; the bytes still in flight are exactly the
\* frames of the payloads not yet returned.
C1_RoundTrip ==
    /\ IsPrefix(recvd, sent)
    /\ StreamIntact

\* two different payloads were sent and both came back, nothing is left in flight
C1_Witness ==
    /\ Len(sent) >= 2
    /\ sent[1] # sent[2]
    /\ recvd = sent
    /\ InFlight = <<>>
    /\ dec.res.kind = "ok"

\* C2: when encode returns Ok for a payload of n <= 65535 bytes it has written the
\* 2-byte big-endian n and then the n bytes, once each and in order, and returns n,
\* for every number w of bytes the first vectored write accepted; before it returns
\* it has written the first w of them.
C2_EncodeFrame ==
    /\ enc.pc = "rest" =>
          /\ enc.w \in 0..(Len(enc.data) + 2)
          /\ enc.out = SubSeq(FrameBytes(enc.data), 1, enc.w)
    /\ enc.res.kind = "ok" =>
          /\ Len(enc.data) <= U16_MAX
          /\ enc.out = FrameBytes(enc.data)
          /\ enc.res.n = Len(enc.data)

\* the long payload was framed after a first write that ended inside its body
C2_Witness ==
    /\ enc.res.kind = "ok"
    /\ enc.data = BigPayload
    /\ enc.w = 3

\* C3: a payload longer than 65535 bytes is never accepted: the encode call returns
\* an error having written no byte, and the stream stays intact, so payloads
\* encoded after it are framed and decoded as usual.
C3_OversizeRejected ==
    /\ \A i \in 1..Len(sent) : Len(sent[i]) <= U16_MAX
    /\ enc.res.kind = "OutOfMemory" => enc.pc = "idle" /\ enc.out = <<>>
    /\ rejects # <<>> => StreamIntact /\ IsPrefix(recvd, sent)

\* a payload accepted after a rejected encode call has been returned by decode
C3_Witness ==
    /\ \E j \in 1..Len(rejects) : rejects[j] < Len(recvd)
    /\ recvd = sent
    /\ recvd[Len(recvd)] # <<>>

\* C4: decode returns OutOfMemory exactly when the length prefix of the next frame
\* is larger than the caller's buffer, and then the caller's buffer is untouched; a
\* call that got past the check, or returned a frame, had a frame that fits.
C4_OutOfMemoryIff ==
    /\ dec.res.kind = "OutOfMemory" =>
          /\ dec.pc = "idle"
          /\ Len(recvd) < Len(sent)
          /\ Len(sent[Len(recvd) + 1]) > Len(dec.src)
          /\ dec.src = Fill(Len(dec.src), Untouched)
    /\ dec.res.kind = "ok" =>
          /\ recvd # <<>>
          /\ Len(recvd[Len(recvd)]) <= Len(dec.src)
          /\ dec.res.n = Len(recvd[Len(recvd)])
    /\ dec.pc = "hdr" => dec.offset < 2
    /\ dec.pc = "body" =>
          /\ Len(recvd) < Len(sent)
          /\ Len(sent[Len(recvd) + 1]) <= Len(dec.src)

\* decode refused a 2-byte frame offered a 1-byte buffer
C4_Witness ==
    /\ dec.res.kind = "OutOfMemory"
    /\ Len(dec.src) = 1
    /\ dec.offset >= 2

\* C13: decode terminates: a decode call on a stream the peer has closed returns, a
\* frame or an error.
C13_DecodeTerminates == (closed /\ dec.pc # "idle") ~> (dec.pc = "idle")

\* C14: abandoning decode calls loses nothing: the payloads returned by the calls
\* that completed are the payloads sent, in order, and the bytes held by the decoder
\* and those on the stream are still the frames not yet returned, whatever the
\* decoder held when a call was abandoned.
C14_CancelSafe ==
    /\ IsPrefix(recvd, sent)
    /\ IsPrefix(InFlight, Frames(sent, Len(recvd) + 1))
    /\ \A i \in 1..Len(cancels) : cancels[i].at <= Len(recvd)
    /\ dec.res.kind = "cancelled" =>
          /\ dec.pc = "idle"
          /\ cancels # <<>>
          /\ dec.offset = cancels[Len(cancels)].offset

\* a decode call was abandoned with the header and part of the body read, and the
\* payloads returned since are those sent
C14_Witness ==
    /\ \E i \in 1..Len(cancels) : cancels[i].offset = 3 /\ cancels[i].at = 0
    /\ Len(sent) = 2
    /\ Len(sent[1]) = 2
    /\ sent[2] # <<>>
    /\ recvd = sent

\* the frame the decoder is at: the first one sent and not yet returned
NextFrame == sent[Len(recvd) + 1]

\* C15: a decode call that fails with OutOfMemory leaves the frame in the decoder:
\* the header and what was read of the body are held; the next call fails the same
\* way, changing nothing, if its buffer is still smaller than the frame, and otherwise
\* goes on to return that very frame; the frames after it follow in order.
C15_OutOfMemoryKeepsFrame ==
    /\ [](dec.res.kind = "OutOfMemory" =>
            /\ dec.offset >= 2
            /\ Len(recvd) < Len(sent)
            /\ DataLen(dec.buf) = Len(NextFrame)
            /\ IsPrefix(InFlight, Frames(sent, Len(recvd) + 1)))
    /\ [](IsPrefix(recvd, sent))
    /\ [][dec.res.kind = "OutOfMemory" /\ dec' # dec =>
            IF Len(dec'.src) < Len(NextFrame)
            THEN /\ dec'.res.kind = "OutOfMemory"
                 /\ dec'.offset = dec.offset
                 /\ recvd' = recvd
            ELSE /\ dec'.res.kind # "OutOfMemory"
                 /\ dec'.pc = "idle" => recvd' = Append(recvd, NextFrame)
                 /\ dec'.pc # "idle" => dec'.pc = "body" /\ dec'.data_len = Len(NextFrame)]_vars

\* a 2-byte frame was refused with a 1-byte buffer, then returned, and the frame
\* sent after it came next
C15_Witness ==
    /\ Len(recvd) = 2
    /\ recvd = sent
    /\ Len(recvd[1]) = 2
    /\ recvd[2] # <<>>
    /\ 1 \in refused

----------------------------------------------------------------------------
(* Properties of the DNS queries *)

\* the tasks that ended because no response came
TimedOut(t) == q[t].pc = "done" /\ q[t].e = "timeout"

\* the tasks that ended on a response
Answered(t) == q[t].pc = "done" /\ q[t].e \in {"none", "recv", "parse", "rcode", "norecords", "utf8"}

\* C5 as claimed: a query gives up on a server only after 3 retries, that is after
\* the request was sent 4 times.
C5_ThreeRetries == \A t \in Tasks : TimedOut(t) => q[t].nsend - 1 = 3

\* C5 as amended: a wait for a response lasts at most 3 seconds; the request is sent
\* at most 3 times to one server (the first time and up to 2 retries), once more
\* after each timeout but the third; with the third timeout the query ends in an
\* error for that server; a response ends the query with no further request.
C5_ThreeAttempts ==
    \A t \in Tasks :
        /\ q[t].waited <= 3
        /\ q[t].nsend <= 3
        /\ q[t].pc = "send" => q[t].nsend = q[t].count /\ q[t].count <= 2
        /\ q[t].pc = "wait" => q[t].nsend = q[t].count + 1 /\ q[t].count <= 2
        /\ TimedOut(t) => q[t].count = 3 /\ q[t].nsend = 3
        /\ Answered(t) => q[t].nsend = q[t].count + 1 /\ q[t].count <= 2

\* a query gave up after its third timeout
C5_Witness == \E t \in Tasks : TimedOut(t) /\ q[t].nsend = 3 /\ contacted # {}

\* the call walks a list of name servers
InLoop == dns.fn \in {"txt", "all"} /\ dns.i >= 1 /\ dns.list # <<>>

\* C6: the name servers are tried in the order of the list: a request is sent to a
\* server only when every server before it has failed or yielded no usable record;
\* an Ok result is the answer of the first server that yielded a non-empty answer,
\* and no server after that one has been sent a request.
C6_ServersInOrder ==
    InLoop =>
        /\ dns.pc = "loop" => dns.i = Len(outcomes) + 1
        /\ \A j \in contacted :
              /\ j <= Len(outcomes) + 1
              /\ j <= Len(dns.list)
              /\ \A i \in 1..(j - 1) : i <= Len(outcomes) => outcomes[i] \in {"failed", "empty"}
        /\ dns.res.kind = "ok" =>
              LET k == Len(outcomes)
              IN  /\ k >= 1
                  /\ outcomes[k] = "answer"
                  /\ \A i \in 1..(k - 1) : outcomes[i] # "answer"
                  /\ dns.res.val # <<>>
                  /\ \A n \in 1..Len(dns.res.val) : dns.res.val[n].srv = k
                  /\ \A j \in contacted : j <= k
        /\ dns.res.kind = "err" /\ outcomes # <<>> =>
              \A i \in 1..Len(outcomes) : outcomes[i] # "answer"

\* the second server answered after the first yielded no usable record
C6_Witness ==
    /\ InLoop
    /\ dns.res.kind = "ok"
    /\ outcomes = <<"empty", "answer">>
    /\ contacted = {1, 2}

\* what a task handed back to dns_query_all: its records, none if it failed
Got(t) == IF q[t].e = "none" THEN q[t].rs ELSE <<>>

\* a dns_query_all call that walks its list of name servers
AllCall == dns.fn = "all" /\ dns.i >= 1 /\ Len(dns.domain) = 2

\* C16: dns_query_all starts the A and the AAAA lookup of a server together and
\* goes on only when both have ended; it returns Ok for that server exactly when
\* one of them yielded an address, whether or not the other failed; the list holds
\* the A addresses, then the AAAA addresses, each with the port of the input.
C16_BothLookups ==
    AllCall =>
        /\ q["txt"].pc = "off"
        /\ q["a"].pc # "off" /\ q["aaaa"].pc # "off"
        /\ dns.pc = "done" =>
              /\ q["a"].pc = "done" /\ q["aaaa"].pc = "done"
              /\ dns.res.kind = "ok" <=> (Got("a") # <<>> \/ Got("aaaa") # <<>>)
              /\ dns.res.kind = "ok" =>
                    /\ Len(dns.res.val) = Len(Got("a")) + Len(Got("aaaa"))
                    /\ \A n \in 1..Len(dns.res.val) :
                          /\ dns.res.val[n].port = 19302
                          /\ dns.res.val[n].srv = dns.i
                          /\ dns.res.val[n].rt = (IF n <= Len(Got("a")) THEN "A" ELSE "AAAA")

\* the second server gave no answer to the A lookup, which timed out, and an AAAA
\* record, and the call returned that address
C16_Witness ==
    /\ AllCall
    /\ dns.res.kind = "ok"
    /\ dns.i = 2
    /\ q["a"].e = "timeout"
    /\ Len(dns.res.val) = 1
    /\ dns.res.val[1].rt = "AAAA"

\* a call of dns_query_txt, or of dns_query_all with name servers, has returned
Returned17 == dns.pc = "done" /\ (dns.fn = "txt" \/ (dns.fn = "all" /\ dns.given # <<>>))

\* C17: dns_query_txt, and dns_query_all given name servers, return Ok with at least
\* one entry or Err, never Ok with an empty list; having walked the list they return
\* Err exactly when no server yielded a usable record, and then every server of the
\* list was tried.
C17_NeverEmptyOk ==
    Returned17 =>
        /\ dns.res.kind \in {"ok", "err"}
        /\ dns.res.val # <<>>
        /\ dns.i >= 1 =>
              /\ dns.res.kind = "err" <=> (\A i \in 1..Len(outcomes) : outcomes[i] # "answer")
              /\ dns.res.kind = "err" /\ (dns.fn = "all" => Len(dns.domain) = 2) =>
                    Len(outcomes) = Len(dns.list)

\* both servers answered without a usable record and the call returned Err
C17_Witness ==
    /\ Returned17
    /\ dns.fn = "all"
    /\ outcomes = <<"empty", "empty">>
    /\ dns.res.kind = "err"

\* C18: dns_query_all given name servers sends requests to servers of that list only
\* and never calls the system resolver; given none it calls the system resolver and
\* sends no request; given a socket address it does neither and returns that
\* address; dns_query_txt given no name server walks 223.5.5.5:53, then
\* 114.114.114.114:53, and otherwise the list it was given.
C18_ConfiguredServers ==
    /\ dns.fn = "all" =>
          /\ dns.list = dns.given
          /\ contacted \subseteq 1..Len(dns.given)
          /\ dns.given # <<>> => ~dns.sys
          /\ dns.sys <=> (dns.given = <<>> /\ dns.domain[1] # "192.0.2.7")
          /\ dns.domain = <<"192.0.2.7", 3478>> =>
                /\ contacted = {}
                /\ dns.i = 0
                /\ dns.res = [kind |-> "ok", val |-> <<[ip |-> "192.0.2.7", port |-> 3478]>>]
    /\ dns.fn = "txt" =>
          /\ ~dns.sys
          /\ contacted \subseteq 1..Len(dns.list)
          /\ dns.given # <<>> => dns.list = dns.given
          /\ dns.given = <<>> => dns.list = <<"223.5.5.5:53", "114.114.114.114:53">>
    /\ dns.fn = "none" => contacted = {}

\* dns_query_txt, given no name server, got no answer from 223.5.5.5:53 and asked
\* 114.114.114.114:53
C18_Witness ==
    /\ dns.fn = "txt"
    /\ dns.given = <<>>
    /\ contacted = {1, 2}
    /\ dns.i = 2
    /\ dns.list[2] = "114.114.114.114:53"

----------------------------------------------------------------------------
(* Properties of the configuration *)

RECURSIVE LastCall(_, _)
\* the position of the last call of setter name in cs, 0 if there is none
LastCall(cs, name) ==
    IF cs = <<>> THEN 0
    ELSE IF cs[Len(cs)].name = name THEN Len(cs)
    ELSE LastCall(SubSeq(cs, 1, Len(cs) - 1), name)

\* the argument of the last call of setter name in cs, or default
LastArg(cs, name, default) ==
    IF LastCall(cs, name) = 0 THEN default ELSE cs[LastCall(cs, name)].arg

\* C7 as claimed: multi_pipeline and the UDP main_pipeline_num equal the number of
\* configured UDP ports.
C7_PortsDetermine ==
    /\ cfg.multi_pipeline = Len(cfg.udp_pipe_config.udp_ports)
    /\ cfg.udp_pipe_config.main_pipeline_num = Len(cfg.udp_pipe_config.udp_ports)

\* C7 as amended: the number of ports determines neither: multi_pipeline is the
\* argument of the last PipeConfig::set_main_pipeline_num call and main_pipeline_num
\* that of the last UdpPipeConfig::set_main_pipeline_num call (made before the UDP
\* configuration was handed to set_udp_pipe_config), 2 when there was none; only in
\* the configuration no setter was called on do both equal the number of ports.
C7_PortsIndependent ==
    /\ cfg.multi_pipeline = LastArg(calls, "set_main_pipeline_num", 2)
    /\ udp.main_pipeline_num = LastArg(calls, "Udp.set_main_pipeline_num", 2)
    /\ cfg.udp_pipe_config.main_pipeline_num =
          LastArg(SubSeq(calls, 1, LastCall(calls, "set_udp_pipe_config")),
                  "Udp.set_main_pipeline_num", 2)
    /\ calls = <<>> => C7_PortsDetermine

\* one port is configured and both pipeline numbers are still 2
C7_Witness ==
    /\ Len(cfg.udp_pipe_config.udp_ports) = 1
    /\ cfg.multi_pipeline = 2
    /\ cfg.udp_pipe_config.main_pipeline_num = 2
    /\ LastCall(calls, "Udp.set_simple_udp_port") > 0

\* C10: the configuration no setter was called on has the documented defaults.
C10_Defaults ==
    calls = <<>> =>
        /\ cfg.multi_pipeline = 2
        /\ cfg.udp_pipe_config.sub_pipeline_num = 82
        /\ cfg.route_idle_time = 10
        /\ cfg.heartbeat_interval = 5
        /\ cfg.query_id_interval = 12
        /\ cfg.udp_pipe_config.model = "Low"
        /\ udp = cfg.udp_pipe_config

\* the configuration as constructed
C10_Witness ==
    /\ calls = <<>>
    /\ cfg.udp_pipe_config.udp_ports = <<0, 0>>
    /\ cfg.tcp_pipe_config.tcp_port = 0

\* the builder and the field each setter is to write
Target(name) ==
    CASE name = "Udp.set_main_pipeline_num"      -> <<"Udp", "main_pipeline_num">>
      [] name = "Udp.set_sub_pipeline_num"       -> <<"Udp", "sub_pipeline_num">>
      [] name = "Udp.set_model"                  -> <<"Udp", "model">>
      [] name = "Udp.set_default_interface"      -> <<"Udp", "default_interface">>
      [] name = "Udp.set_udp_ports"              -> <<"Udp", "udp_ports">>
      [] name = "Udp.set_simple_udp_port"        -> <<"Udp", "udp_ports">>
      [] name = "Udp.set_use_v6"                 -> <<"Udp", "use_v6">>
      [] name = "Tcp.set_tcp_multiplexing_limit" -> <<"Tcp", "tcp_multiplexing_limit">>
      [] name = "Tcp.set_route_idle_time"        -> <<"Tcp", "route_idle_time">>
      [] name = "Tcp.set_default_interface"      -> <<"Tcp", "default_interface">>
      [] name = "Tcp.set_tcp_port"               -> <<"Tcp", "tcp_port">>
      [] name = "Tcp.set_use_v6"                 -> <<"Tcp", "use_v6">>
      [] name = "set_first_latency"              -> <<"Pipe", "first_latency">>
      [] name = "set_main_pipeline_num"          -> <<"Pipe", "multi_pipeline">>
      [] name = "set_enable_extend"              -> <<"Pipe", "enable_extend">>
      [] name = "set_udp_pipe_config"            -> <<"Pipe", "udp_pipe_config">>
      [] name = "set_tcp_pipe_config"            -> <<"Pipe", "tcp_pipe_config">>
      [] name = "set_node_id"                    -> <<"Pipe", "self_id">>
      [] name = "set_direct_addrs"               -> <<"Pipe", "direct_addrs">>
      [] name = "set_send_buffer_size"           -> <<"Pipe", "send_buffer_size">>
      [] name = "set_query_id_interval"          -> <<"Pipe", "query_id_interval">>
      [] name = "set_query_id_max_num"           -> <<"Pipe", "query_id_max_num">>
      [] name = "set_heartbeat_interval"         -> <<"Pipe", "heartbeat_interval">>
      [] name = "set_tcp_stun_servers"           -> <<"Pipe", "tcp_stun_servers">>
      [] name = "set_udp_stun_servers"           -> <<"Pipe", "udp_stun_servers">>
      [] name = "set_mapping_addrs"              -> <<"Pipe", "mapping_addrs">>
      [] name = "set_dns"                        -> <<"Pipe", "dns">>
      [] OTHER                                   -> <<"none", "none">>

\* the value a call is to leave in its field: its argument, in an Option where the
\* field is one, as a list of one port for set_simple_udp_port
Written(c) ==
    IF c.name \in {"Udp.set_default_interface", "Tcp.set_default_interface", "set_node_id",
                   "set_direct_addrs", "set_tcp_stun_servers", "set_udp_stun_servers",
                   "set_mapping_addrs", "set_dns"}
    THEN <<c.arg>>
    ELSE IF c.name = "Udp.set_simple_udp_port" THEN <<c.arg>>
    ELSE c.arg

RECURSIVE LastWrite(_, _, _)
\* what the last call in cs that targets tgt is to leave there; default if there is none
LastWrite(cs, tgt, default) ==
    IF cs = <<>> THEN default
    ELSE IF Target(cs[Len(cs)].name) = tgt THEN Written(cs[Len(cs)])
    ELSE LastWrite(SubSeq(cs, 1, Len(cs) - 1), tgt, default)

\* a call changes the field it targets, and no other field of the three records
FrameOf(c) ==
    /\ \A f \in DOMAIN udp :
          udp'[f] = IF Target(c.name) = <<"Udp", f>> THEN Written(c) ELSE udp[f]
    /\ \A f \in DOMAIN tcp :
          tcp'[f] = IF Target(c.name) = <<"Tcp", f>> THEN Written(c) ELSE tcp[f]
    /\ \A f \in DOMAIN cfg :
          cfg'[f] = IF Target(c.name) = <<"Pipe", f>> THEN Written(c) ELSE cfg[f]

\* C19: a setter of PipeConfig, TcpPipeConfig or UdpPipeConfig writes its argument
\* to its field and leaves every other field of the three records as it was; so each
\* field holds what the last call of a setter of that field wrote, or its default,
\* whatever was called in between.
C19_SettersFrame ==
    /\ [][calls' # calls => FrameOf(calls'[Len(calls')])]_vars
    /\ [](/\ \A f \in DOMAIN udp : udp[f] = LastWrite(calls, <<"Udp", f>>, UdpPipeConfigDefault[f])
          /\ \A f \in DOMAIN tcp : tcp[f] = LastWrite(calls, <<"Tcp", f>>, TcpPipeConfigDefault[f])
          /\ \A f \in DOMAIN cfg : cfg[f] = LastWrite(calls, <<"Pipe", f>>, PipeConfigDefault[f]))

\* the number of main pipelines was set to 3, then the TCP configuration installed
C19_Witness ==
    /\ Len(calls) = 2
    /\ calls[1] = [name |-> "set_main_pipeline_num", arg |-> 3]
    /\ calls[2].name = "set_tcp_pipe_config"
    /\ cfg.multi_pipeline = 3
    /\ cfg.tcp_pipe_config = TcpPipeConfigDefault

\* C20: the configuration none_tcp returns has no TCP pipe configuration.
C20_NoneTcpDisables ==
    (calls # <<>> /\ calls[Len(calls)].name = "none_tcp") => cfg.tcp_pipe_config = None

\* C21: the converted configuration holds the values of the public one: the four
\* top-level fields, the five UDP fields with High mapped to High and Low to Low, the
\* four TCP fields; its TCP codec factory is the length-prefixed one; every codec()
\* call yields a decoder with offset 0 and an empty buffer and leaves the codecs of
\* the other connections as they are, as does a read on one connection.
C21_ConversionPreserves ==
    /\ [](core # NotConverted =>
            /\ core.first_latency = cfg.first_latency
            /\ core.multi_pipeline = cfg.multi_pipeline
            /\ core.route_idle_time = cfg.route_idle_time
            /\ core.enable_extend = cfg.enable_extend
            /\ core.udp_pipe_config.main_pipeline_num = cfg.udp_pipe_config.main_pipeline_num
            /\ core.udp_pipe_config.sub_pipeline_num = cfg.udp_pipe_config.sub_pipeline_num
            /\ core.udp_pipe_config.udp_ports = cfg.udp_pipe_config.udp_ports
            /\ core.udp_pipe_config.use_v6 = cfg.udp_pipe_config.use_v6
            /\ cfg.udp_pipe_config.model = "High" <=> core.udp_pipe_config.model = "udp_pipe::Model::High"
            /\ cfg.udp_pipe_config.model = "Low" <=> core.udp_pipe_config.model = "udp_pipe::Model::Low"
            /\ core.tcp_pipe_config.route_idle_time = cfg.tcp_pipe_config.route_idle_time
            /\ core.tcp_pipe_config.tcp_multiplexing_limit = cfg.tcp_pipe_config.tcp_multiplexing_limit
            /\ core.tcp_pipe_config.tcp_port = cfg.tcp_pipe_config.tcp_port
            /\ core.tcp_pipe_config.use_v6 = cfg.tcp_pipe_config.use_v6
            /\ core.tcp_pipe_config.init_codec = "LengthPrefixedInitCodec")
    /\ [](conns # <<>> => core # NotConverted)
    /\ [][conns' # conns =>
            IF Len(conns') = Len(conns) + 1
            THEN /\ conns'[Len(conns')].dec.offset = 0
                 /\ conns'[Len(conns')].dec.buf = <<>>
                 /\ conns'[Len(conns')].enc = EncIdle
                 /\ \A c \in 1..Len(conns) : conns'[c] = conns[c]
            ELSE /\ Len(conns') = Len(conns)
                 /\ Cardinality({c \in 1..Len(conns) : conns'[c] # conns[c]}) = 1]_vars

\* a configuration with model High and TCP port 23333 was converted; the decoder of
\* the first connection holds a byte, that of the second, made after, is new
C21_Witness ==
    /\ core # NotConverted
    /\ core.udp_pipe_config.model = "udp_pipe::Model::High"
    /\ core.tcp_pipe_config.tcp_port = 23333
    /\ core.multi_pipeline = 3
    /\ Len(conns) = 2
    /\ conns[1].dec.offset = 1
    /\ conns[2].dec.offset = 0 /\ conns[2].dec.buf = <<>>

----------------------------------------------------------------------------
(* Properties of the example node *)

\* the log entries of packet k of line l
Handled(l, k) == {a \in 1..Len(log) : log[a].line = l /\ log[a].k = k}

\* C8: after a packet that could not be handled, a failed relay and a failed write
\* to the TUN device the task is back at recv_from; a task has returned exactly
\* when its recv_from returned an error, whatever happened on the other lines.
C8_LoopSurvives ==
    \A l \in LineIds :
        /\ lines[l].last \in {"HandleError", "TurnFailed", "UserDataFailed"} => lines[l].pc = "recv"
        /\ lines[l].pc = "returned" <=> lines[l].last = "RecvError"
        /\ lines[l].pc = "none" => lines[l].n = 0

\* line 1 has ended on a recv_from error; line 2 is receiving again after a failed
\* write to the TUN device
C8_Witness ==
    /\ proc = "running"
    /\ lines[1].pc = "returned"
    /\ lines[2].last = "UserDataFailed"
    /\ lines[2].pc = "recv"

\* C9: on one line a packet is handled, its relay send or TUN write included,
\* before the next is received, so the sends and writes of a line are in the order
\* of arrival.
C9_ArrivalOrder ==
    /\ \A a, b \in 1..Len(log) :
          a < b /\ log[a].line = log[b].line => log[a].k < log[b].k
    /\ \A l \in LineIds :
          /\ lines[l].n = Len(lines[l].kinds)
          /\ lines[l].pc \in {"turn", "user"} =>
                /\ lines[l].n >= 1
                /\ lines[l].kinds[lines[l].n] = (IF lines[l].pc = "turn" THEN "Turn" ELSE "UserData")
                /\ Handled(l, lines[l].n) = {}
          /\ \A k \in 1..lines[l].n :
                /\ lines[l].kinds[k] \in {"Turn", "UserData"}
                /\ (k < lines[l].n \/ lines[l].pc \notin {"turn", "user"})
                => Cardinality(Handled(l, k)) = 1

\* the lines are not ordered with each other: line 2 handled two packets before
\* line 1, accepted first, handled its first
C9_Witness ==
    /\ Len(log) = 3
    /\ log[1].line = 2 /\ log[2].line = 2
    /\ log[3].line = 1 /\ log[3].k = 1

\* what became of packet k of line l: the destinations and data of its log entries
Emitted(l, k, to) == {a \in Handled(l, k) : log[a].to = to}

\* C11: a packet classified Turn is sent to the overlay toward its dest_id, header
\* and payload, and never written to the TUN device; of a packet classified UserData
\* the payload alone is written to the TUN device, and it is never sent to the overlay.
C11_TurnAndUserData ==
    /\ \A a \in 1..Len(log) :
          LET pkt  == NetPacket(log[a].line, log[a].k)
              kind == lines[log[a].line].kinds[log[a].k]
          IN  /\ log[a].k <= lines[log[a].line].n
              /\ kind = "Turn" =>
                    /\ log[a].to = "overlay"
                    /\ log[a].data = pkt.header \o pkt.payload
                    /\ log[a].dest \in DestIds
              /\ kind = "UserData" =>
                    /\ log[a].to = "tun"
                    /\ log[a].data = pkt.payload
              /\ kind \in {"Turn", "UserData"}
    /\ \A l \in LineIds :
          lines[l].pc = "turn" => lines[l].dest \in DestIds

\* a relayed packet and a delivered one on the same line, to different peers
C11_Witness ==
    /\ Len(log) = 3
    /\ log[1].line = 1 /\ log[1].to = "overlay" /\ log[1].dest = "peerB"
    /\ log[2].line = 1 /\ log[2].to = "tun"
    /\ log[3].to = "overlay" /\ log[3].dest = "peerA"

\* C12: a packet handed to send_to_packet carries the length the TUN read of this
\* turn of the loop returned for it; a packet that is not IPv4, or is addressed to a
\* broadcast, multicast or unspecified address or to one ending in .255, is never
\* sent; after a failed send the task reads again, and it returns only when the
\* allocation or a read failed.
C12_TunReader ==
    /\ \A a \in 1..Len(tunlog) :
          /\ tunlog[a].payload_len = tunlog[a].read_len
          /\ tunlog[a].b0 \div 16 = 4
          /\ tunlog[a].dest \notin {<<255, 255, 255, 255>>, <<0, 0, 0, 0>>}
          /\ ~(tunlog[a].dest[1] \in 224..239)
          /\ tunlog[a].dest[4] # 255
          /\ \A b \in 1..Len(tunlog) : a < b => tunlog[a].k < tunlog[b].k
    /\ tun.pc = "send" => tun.send_packet.payload_len = tun.read_len
    /\ tun.last = "SendFailed" => tun.pc = "recv"
    /\ tun.pc = "returned" => tun.last \in {"none", "RecvError"}
    /\ Len(tunlog) + tun.skipped + (IF tun.pc = "send" THEN 1 ELSE 0) = tun.n

\* a short packet was sent after a longer one, a packet to x.x.x.255 was skipped in
\* between, and the task reads again after the second send failed
C12_Witness ==
    /\ Len(tunlog) = 2
    /\ tunlog[1].payload_len = 84 /\ tunlog[2].payload_len = 20
    /\ tunlog[2].k = 3
    /\ tun.send_packet.dest_ip = <<10, 26, 1, 4>>
    /\ tun.last = "SendFailed"
    /\ tun.pc = "recv"

====
